---- MODULE Spec2Model ----
(***************************************************************************)
(* The background download job of app.py: the shared job_state dict, the   *)
(* script thread (submit handler, start_download_job, cancel_download_job) *)
(* and the worker threads (download_playlist, finalize_job,                *)
(* register_error).  Threads interleave at the granularity of one access   *)
(* to the shared dict (or to a threading.Event) per step; purely local     *)
(* computation is folded into the step that follows it.                    *)
(***************************************************************************)
EXTENDS Integers, Sequences, FiniteSets, TLC

\* ---------------------------------------------------------------- bounds
\* Number of jobs (uuid4 job ids, worker threads) one behaviour may start.
MaxJobs == 2
\* Longest entry list the metadata engine returns, in SpecLoop and in Spec.
MaxEntries == 2
MaxRaceEntries == 1

JobIds == 1..MaxJobs

\* ------------------------------------------------------- Python values
\* Optional[T]: None is the empty tuple, a present value v is <<v>>.
None == <<>>
Some(v) == <<v>>
\* Python truthiness of an Optional[int] and of an Optional[str].
TruthyInt(o) == o # None /\ o[1] # 0
TruthyStr(o) == o # None /\ o[1] # <<>>

\* Strings that the code formats are tuples <<format, args...>>; fixed
\* texts are one-element tuples.
MsgAwaiting == <<"Awaiting your playlist...">>
MsgPreparing == <<"Preparing downloads...">>
\* (mutant) a capped job is announced like an uncapped one.
MsgPreparingFirst_NoCap(n) == <<"Preparing downloads...">>
MsgPreparingFirst(n) == <<"Preparing first {max_items} item(s)...", n>>
MsgCancelling == <<"Cancelling download...">>
MsgCancelledByUser == <<"Download cancelled by user.">>
MsgDownloadCancelled == <<"Download cancelled.">>
MsgDownloadsComplete == <<"Downloads complete!">>
MsgDownloading(title, position, total) ==
    <<"Downloading {title} ({position}/{total_items})", title, position, total>>
MsgProcessed(position, total) ==
    <<"Processed {position}/{total_items}", position, total>>
\* (mutant) the completion message counts the failures only.
MsgCompleted_Failures(title, k, n) ==
    <<"Completed {k} of {n} items from {title}.", title, n - k, n>>
MsgCompleted(title, k, n) ==
    <<"Completed {k} of {n} items from {title}.", title, k, n>>
MsgFfmpegRequired == <<"FFmpeg is required for the selected format.">>
MsgAlreadyRunning == <<"A download task is already running.">>
MsgUnableToRetrieve == <<"Unable to retrieve playlist metadata">>
MsgNotAPlaylist == <<"The provided URL does not point to a valid playlist.">>
MsgNoVideos == <<"No downloadable videos were found in this playlist.">>
MsgMissingUrl == <<"Missing video URL">>
MsgNotProduced == <<"Media file not produced">>
MsgFetchError == <<"network timeout">>
MsgReadError == <<"OSError reading the media file">>
ThePlaylist == <<"t", "h", "e", " ", "p", "l", "a", "y", "l", "i", "s", "t">>

\* A float in [0,1] that the code computes as position / total: a reduced
\* fraction <<numerator, denominator>>.
RECURSIVE Gcd(_, _)
Gcd(a, b) == IF b = 0 THEN a ELSE Gcd(b, a % b)
Frac(n, d) == LET g == Gcd(n, d) IN <<n \div g, d \div g>>
FracLeq(x, y) == x[1] * y[2] <= y[1] * x[2]
FracZero == <<0, 1>>
FracOne == <<1, 1>>
\* (mutant) the value is stored as it comes.
Clamp01_Identity(x) == x
Clamp01(x) == IF FracLeq(x, FracZero) THEN FracZero
              ELSE IF FracLeq(FracOne, x) THEN FracOne ELSE x

Max(a, b) == IF a >= b THEN a ELSE b

\* ------------------------------------------------------- pure functions
\* A str is a sequence of one-character strings.
WordChars == {"a", "b", "c", "d", "e", "f", "g", "h", "i", "j", "k", "l", "m",
              "n", "o", "p", "q", "r", "s", "t", "u", "v", "w", "x", "y", "z",
              "X", "Y", "_"}
SpaceChars == {" "}
Hyphen == "-"

RECURSIVE CollapseRuns(_)
\* re.sub(r"[-\s]+", "-", s): every maximal run of hyphens and whitespace
\* becomes one hyphen.
CollapseRuns(s) ==
    IF s = <<>> THEN <<>>
    ELSE LET sep(c) == c = Hyphen \/ c \in SpaceChars
             rest == CollapseRuns(Tail(s))
         IN IF sep(Head(s))
            THEN IF rest # <<>> /\ Head(rest) = Hyphen THEN rest
                 ELSE <<Hyphen>> \o rest
            ELSE <<Head(s)>> \o rest

RECURSIVE LStrip(_, _)
LStrip(s, cs) == IF s # <<>> /\ Head(s) \in cs THEN LStrip(Tail(s), cs) ELSE s
RECURSIVE RStrip(_, _)
RStrip(s, cs) == IF s # <<>> /\ s[Len(s)] \in cs
                 THEN RStrip(SubSeq(s, 1, Len(s) - 1), cs) ELSE s

StrPlaylist == <<"p", "l", "a", "y", "l", "i", "s", "t">>
\* (mutant) a job without playlist title is archived as "playlist".
StrYoutubePlaylist_Short == StrPlaylist
StrYoutubePlaylist == <<"y", "o", "u", "t", "u", "b", "e", "-",
                        "p", "l", "a", "y", "l", "i", "s", "t">>

\* slugify(value)
slugify(value) ==
    LET keep(c) == c \in WordChars \/ c \in SpaceChars \/ c = Hyphen
        cleaned1 == SelectSeq(value, keep)
        cleaned2 == RStrip(LStrip(CollapseRuns(cleaned1), {"-", "_"}), {"-", "_"})
    IN IF cleaned2 # <<>> THEN cleaned2 ELSE StrPlaylist

\* media_format.lower()
Lower(fmt) == IF fmt = "MP3" THEN "mp3" ELSE "mp4"

\* What ydl.extract_info can do: raise, return nothing usable, or return
\* playlist metadata whose entries may hold None.
TitleX == <<"X">>
PlaylistTitles == {None, Some(TitleX)}
PlaylistTitlesFew == {Some(TitleX)}
EntryKinds == {[title |-> Some(<<"A">>), url |-> Some("u")],
               [title |-> None, url |-> None]}
RawEntries == {None} \cup {Some(e) : e \in EntryKinds}
RawLists(maxEntries) == UNION {[1..n -> RawEntries] : n \in 0..maxEntries}
ExtractOutcomes(titles, maxEntries) ==
    {[kind |-> "raise", title |-> None, entries |-> <<>>],
     [kind |-> "invalid", title |-> None, entries |-> <<>>]}
    \cup {[kind |-> "ok", title |-> t, entries |-> r] :
             t \in titles, r \in RawLists(maxEntries)}

Take(s, n) == IF Len(s) <= n THEN s ELSE SubSeq(s, 1, n)

\* (mutant) an empty entry list is returned like any other.
fetch_playlist_entries_AllowsEmpty(out, max_items) ==
    LET present == SelectSeq(out.entries, LAMBDA e : e # None)
        entries == [i \in 1..Len(present) |-> present[i][1]]
        capped == IF TruthyInt(max_items) THEN Take(entries, max_items[1])
                  ELSE entries
        fail(m) == [exc |-> Some(m), title |-> None, entries |-> <<>>]
    IN IF out.kind = "raise" THEN fail(MsgUnableToRetrieve)
       ELSE IF out.kind = "invalid" THEN fail(MsgNotAPlaylist)
       ELSE [exc |-> None, title |-> out.title, entries |-> capped]

\* (mutant) the entry list is not cut to max_items.
fetch_playlist_entries_Uncapped(out, max_items) ==
    LET present == SelectSeq(out.entries, LAMBDA e : e # None)
        entries == [i \in 1..Len(present) |-> present[i][1]]
        fail(m) == [exc |-> Some(m), title |-> None, entries |-> <<>>]
    IN IF out.kind = "raise" THEN fail(MsgUnableToRetrieve)
       ELSE IF out.kind = "invalid" THEN fail(MsgNotAPlaylist)
       ELSE IF entries = <<>> THEN fail(MsgNoVideos)
       ELSE [exc |-> None, title |-> out.title, entries |-> entries]

\* fetch_playlist_entries(url, max_items), given what extract_info did:
\* [exc |-> Optional message, title |-> playlist_info.get("title"),
\*  entries |-> the entry list].
fetch_playlist_entries(out, max_items) ==
    LET present == SelectSeq(out.entries, LAMBDA e : e # None)
        entries == [i \in 1..Len(present) |-> present[i][1]]
        capped == IF TruthyInt(max_items) THEN Take(entries, max_items[1])
                  ELSE entries
        fail(m) == [exc |-> Some(m), title |-> None, entries |-> <<>>]
    IN IF out.kind = "raise" THEN fail(MsgUnableToRetrieve)
       ELSE IF out.kind = "invalid" THEN fail(MsgNotAPlaylist)
       ELSE IF capped = <<>> THEN fail(MsgNoVideos)
       ELSE [exc |-> None, title |-> out.title, entries |-> capped]

\* (mutant) m4a is ranked before mp3.
AudioPriority_M4aFirst == <<"m4a", "mp3", "opus", "webm", "aac">>

\* A file in the scratch directory: the output template numbers the stem.
AudioPriority == <<"mp3", "m4a", "opus", "webm", "aac">>
VideoPriority == <<"mp4", "mkv", "webm", "m4v", "mov">>
MediaSuffixes == {"mp3", "m4a", "aac", "opus", "ogg", "mp4", "mkv", "webm",
                  "m4v", "mov"}

\* path.suffix.lower().lstrip("."), for the suffixes of the model's files.
SuffixLower(ext) == IF ext = "MP3" THEN "mp3" ELSE ext

\* choose_media_file(candidates, media_format): the set of values the call
\* can return (iteration order of a set of paths is not fixed).
choose_media_file(candidates, media_format) ==
    LET priorities == IF media_format = "mp3" THEN AudioPriority
                      ELSE VideoPriority
        hits(i) == {p \in candidates : SuffixLower(p.ext) = priorities[i]}
        ranked == {i \in 1..Len(priorities) : hits(i) # {}}
        first == CHOOSE i \in ranked : \A j \in ranked : i <= j
        generic == {p \in candidates : SuffixLower(p.ext) \in MediaSuffixes}
    IN IF candidates = {} THEN {None}
       ELSE IF ranked # {} THEN {Some(p) : p \in hits(first)}
       ELSE IF generic # {} THEN {Some(p) : p \in generic}
       ELSE {Some(p) : p \in candidates}

\* ---------------------------------------------------------------- state
VARIABLES
    job,      \* st.session_state["job_state"], the dict every thread shares
    event,    \* event[id]: is_set() of the threading.Event made for job id
    nextId,   \* how many job ids uuid4 has handed out
    cpc,      \* the script thread's position
    cres,     \* how the script thread's last call ended
    centry,   \* cancel_download_job: the event was already set on entry
    worker    \* worker[id]: the worker thread started for job id

vars == <<job, event, nextId, cpc, cres, centry, worker>>

\* What the submit form can ask for: (format_choice, selected_limit).
Requests == {[media_format |-> "MP3", max_items |-> None],
             [media_format |-> "MP4", max_items |-> Some(1)]}
RequestsFew == {[media_format |-> "MP3", max_items |-> None]}

\* initialize_job_state().  The dict's "thread" entry is left out: it is
\* written (start_download_job, finalize_job, register_error) and never read.
initialize_job_state ==
    [running |-> FALSE,
     playlist_url |-> None,
     media_format |-> None,
     max_items |-> None,
     playlist_total |-> None,
     playlist_title |-> None,
     items |-> <<>>,
     failures |-> <<>>,
     archive_data |-> None,
     archive_name |-> None,
     status_type |-> "info",
     status_message |-> MsgAwaiting,
     progress_value |-> FracZero,
     progress_text |-> MsgAwaiting,
     cancel_event |-> None,
     job_id |-> None,
     error |-> None]

\* A thread that has not been started: the locals of worker() and of
\* download_playlist().
IdleWorker ==
    [pc |-> "unborn",       \* the statement the thread is at
     step |-> "",           \* the access within the callee it is at
     media_format |-> "",   \* closure: media_format
     max_items |-> None,    \* closure: max_items
     title |-> None,        \* playlist_info.get("title")
     entries |-> <<>>,      \* entries
     position |-> 0,        \* position
     tmp |-> FALSE,         \* the TemporaryDirectory exists
     scratch |-> {},        \* files in temp_path
     cur |-> None,          \* file_info / failure about to be reported
     exc |-> None,          \* the exception that left download_playlist
     ended |-> "",          \* how download_playlist was left
     tmp1 |-> None,         \* finalize_job: archive_title, success_count
     tmp2 |-> None]         \* finalize_job: the zip buffer, failure_count

Init ==
    /\ job = initialize_job_state
    /\ event = [i \in JobIds |-> FALSE]
    /\ nextId = 0
    /\ cpc = "idle"
    /\ cres = "none"
    /\ centry = FALSE
    /\ worker = [i \in JobIds |-> IdleWorker]

\* (mutant) the callbacks write whatever job is current.
job_matches_Always(job_id) == TRUE
\* (mutant) no thread ever finds its job current.
job_matches_Never(job_id) == FALSE

\* job_matches(job_id)
job_matches(job_id) == job.job_id # None /\ job.job_id = Some(job_id)

\* ------------------------------------------------------ the script thread
\* (mutant) the handler does not look at running.
SubmitRejects_NoGuard == FALSE

\* The submit handler's guard: `elif job_state.get("running")`.
SubmitRejects == job.running

\* (mutant) the except arm resets the whole dict before it stores the error.
ToolUnavailableUpdate_Reset(j) ==
    [initialize_job_state EXCEPT !.status_type = "error",
                                 !.status_message = MsgFfmpegRequired]

\* The job_state.update(...) of the submit handler when ensure_ffmpeg raises.
ToolUnavailableUpdate(j) ==
    [j EXCEPT !.status_type = "error",
              !.status_message = MsgFfmpegRequired,
              !.progress_value = FracZero,
              !.progress_text = MsgAwaiting,
              !.running = FALSE]

\* (mutant) every job gets the id of the first one.
NewJob_ReusedId(j, id, req) ==
    LET status_message == IF TruthyInt(req.max_items)
                          THEN MsgPreparingFirst(req.max_items[1])
                          ELSE MsgPreparing
    IN [j EXCEPT !.running = TRUE,
                 !.playlist_url = Some("url"),
                 !.media_format = Some(req.media_format),
                 !.max_items = req.max_items,
                 !.playlist_total = None,
                 !.playlist_title = None,
                 !.items = <<>>,
                 !.failures = <<>>,
                 !.archive_data = None,
                 !.archive_name = None,
                 !.status_type = "info",
                 !.status_message = status_message,
                 !.progress_value = FracZero,
                 !.progress_text = status_message,
                 !.cancel_event = Some(id),
                 !.job_id = Some(1),
                 !.error = None]

\* The dict start_download_job stores with job.update(...).
NewJob(j, id, req) ==
    LET status_message == IF TruthyInt(req.max_items)
                          THEN MsgPreparingFirst(req.max_items[1])
                          ELSE MsgPreparing
    IN [j EXCEPT !.running = TRUE,
                 !.playlist_url = Some("url"),
                 !.media_format = Some(req.media_format),
                 !.max_items = req.max_items,
                 !.playlist_total = None,
                 !.playlist_title = None,
                 !.items = <<>>,
                 !.failures = <<>>,
                 !.archive_data = None,
                 !.archive_name = None,
                 !.status_type = "info",
                 !.status_message = status_message,
                 !.progress_value = FracZero,
                 !.progress_text = status_message,
                 !.cancel_event = Some(id),
                 !.job_id = Some(id),
                 !.error = None]

\* start_download_job's guard: `if job.get("running"): raise RuntimeError`.
StartRejects == job.running

\* start_download_job(url, media_format, max_items): the running check, a
\* fresh uuid and Event, the job.update and the start of the worker thread.
start_download_job(req) ==
    IF StartRejects
    THEN /\ cres' = "AlreadyRunning"
         /\ UNCHANGED <<job, nextId, worker>>
    ELSE LET id == nextId + 1
         IN /\ nextId' = id
            /\ job' = NewJob(job, id, req)
            /\ worker' = [worker EXCEPT ![id] =
                             [IdleWorker EXCEPT
                                 !.pc = "fetch_playlist_entries",
                                 !.media_format = req.media_format,
                                 !.max_items = req.max_items]]
            /\ cres' = "none"

\* The submit handler (`if submitted:`) for a non-empty URL: the running
\* guard, ensure_ffmpeg and its except arm, start_download_job.  Whether an
\* FFmpeg binary is found is the environment's choice.  Only this thread
\* sets running, so what the guard read still holds when the handler
\* writes: the handler is one step.  A session accepts maxJobs jobs.
Submit(req, maxJobs) ==
    /\ cpc = "idle"
    /\ IF SubmitRejects
       THEN /\ cres' = "AlreadyRunning"
            /\ UNCHANGED <<job, nextId, worker>>
       ELSE \E found \in BOOLEAN :
              IF found
              THEN /\ nextId < maxJobs
                   /\ start_download_job(req)
              ELSE /\ job' = ToolUnavailableUpdate(job)
                   /\ cres' = "ToolUnavailable"
                   /\ UNCHANGED <<nextId, worker>>
    /\ UNCHANGED <<event, cpc, centry>>

\* cancel_download_job's first guard:
\* `if not job.get("running") or not job.get("cancel_event"): return`.
CancelReturnsEarly == ~job.running \/ job.cancel_event = None

\* (mutant) cancel_download_job sets the Event and the status every time.
AlreadyRequested_Never(e) == FALSE

\* cancel_download_job's second guard: `if not job["cancel_event"].is_set()`.
AlreadyRequested(e) == event[e]

CancelPcs == {"cancel_set", "cancel_status_type", "cancel_status_message"}

CancelEnds(result) ==
    /\ cpc' = "idle"
    /\ cres' = result
    /\ centry' = FALSE

\* cancel_download_job: the first guard.
CancelCheck ==
    /\ cpc = "idle"
    /\ IF CancelReturnsEarly
       THEN CancelEnds("none")
       ELSE /\ cpc' = "cancel_set"
            /\ cres' = "none"
            /\ centry' = event[job.cancel_event[1]]
    /\ UNCHANGED <<job, event, nextId, worker>>

\* cancel_download_job: `if not job["cancel_event"].is_set():` and
\* `job["cancel_event"].set()`.  Each reads the dict again, and fails with
\* AttributeError when a worker has stored None meanwhile; only this thread
\* sets an Event, so the test and the set are one step.
CancelSet ==
    /\ cpc = "cancel_set"
    /\ IF job.cancel_event = None
       THEN /\ CancelEnds("AttributeError")
            /\ UNCHANGED event
       ELSE IF AlreadyRequested(job.cancel_event[1])
            THEN /\ CancelEnds("AlreadyRequested")
                 /\ UNCHANGED event
            ELSE /\ event' = [event EXCEPT ![job.cancel_event[1]] = TRUE]
                 /\ cpc' = "cancel_status_type"
                 /\ UNCHANGED <<cres, centry>>
    /\ UNCHANGED <<job, nextId, worker>>

\* cancel_download_job: job["status_type"] = "warning".
CancelStatusType ==
    /\ cpc = "cancel_status_type"
    /\ job' = [job EXCEPT !.status_type = "warning"]
    /\ cpc' = "cancel_status_message"
    /\ UNCHANGED <<event, nextId, cres, centry, worker>>

\* cancel_download_job: job["status_message"] = "Cancelling download...".
CancelStatusMessage ==
    /\ cpc = "cancel_status_message"
    /\ job' = [job EXCEPT !.status_message = MsgCancelling]
    /\ CancelEnds("none")
    /\ UNCHANGED <<event, nextId, worker>>

\* ------------------------------------------------------ a worker thread
\* A worker's step on the shared dict is one access to it.  job_matches
\* reads job_id, which only an accepted start changes; the callee's first
\* write follows it in the same step.  Statements that touch only the
\* thread's own locals and its private scratch directory are part of the
\* step that precedes them.
CallerVars == <<cpc, cres, centry, nextId>>

\* The worker moves to statement pc (with the locals changed as in r).
Goto(w, r, pc) ==
    worker' = [worker EXCEPT ![w] = [r EXCEPT !.pc = pc, !.step = ""]]
Step(w, r, k) == worker' = [worker EXCEPT ![w] = [r EXCEPT !.step = k]]

total_items(w) == Len(worker[w].entries)
\* (mutant) the loop walks the resolved list from its end.
entry_Reversed(w) ==
    worker[w].entries[total_items(w) + 1 - worker[w].position]
entry(w) == worker[w].entries[worker[w].position]
\* title = entry.get("title") or f"Video {position}"
Title(w) == IF TruthyStr(entry(w).title) THEN entry(w).title[1]
            ELSE <<"Video {position}", worker[w].position>>

\* (mutant) the scratch directory outlives the with block.
LeaveTempDir_Kept(r) == r

\* Leaving the with block removes the scratch directory.
LeaveTempDir(r) == [r EXCEPT !.tmp = FALSE, !.scratch = {}]

\* download_playlist is left (return or exception): its locals are gone,
\* worker() keeps playlist_info and the exception.
Leave(r, how) ==
    [LeaveTempDir(r) EXCEPT !.entries = <<>>, !.position = 0, !.cur = None,
                            !.max_items = None, !.ended = how]

\* download_playlist: ensure_ffmpeg and fetch_playlist_entries.  The
\* submit handler's ensure_ffmpeg has just cached the binary's path in the
\* module the worker's closure reads, so this ensure_ffmpeg returns.
FetchPlaylistEntries(w, outcomes) ==
    /\ worker[w].pc = "fetch_playlist_entries"
    /\ \E out \in outcomes :
         LET r == fetch_playlist_entries(out, worker[w].max_items)
         IN IF r.exc # None
            THEN Goto(w, Leave([worker[w] EXCEPT !.exc = r.exc], "exception"),
                      "register_error")
            ELSE Goto(w, [worker[w] EXCEPT !.title = r.title,
                                           !.entries = r.entries],
                      "total_callback")
    /\ UNCHANGED <<job, event, CallerVars>>

\* update_job_total(job_id, total), called by total_callback; then
\* `if total_items == 0: return playlist_info`, else the with block is
\* entered and the for loop starts at position 1.
UpdateJobTotal(w) ==
    /\ worker[w].pc = "total_callback"
    /\ job' = IF job_matches(w)
              THEN [job EXCEPT !.playlist_total = Some(total_items(w))]
              ELSE job
    /\ IF total_items(w) = 0
       THEN Goto(w, Leave(worker[w], "empty"), "finalize_job")
       ELSE Goto(w, [worker[w] EXCEPT !.tmp = TRUE, !.position = 1], "loop")
    /\ UNCHANGED <<event, CallerVars>>

\* (mutant) the loop does not look at the cancel Event.
CancelSeen_Never(w) == FALSE

\* `cancel_event and cancel_event.is_set()` at the top of an iteration.
CancelSeen(w) == event[w]

\* The top of an iteration: the cancel check.
LoopTop(w) ==
    /\ worker[w].pc = "loop"
    /\ IF CancelSeen(w)
       THEN Goto(w, worker[w], "cancel_status")
       ELSE Goto(w, worker[w], "info_status")
    /\ UNCHANGED <<job, event, CallerVars>>

\* (mutant) the failure dict names the entry by its position only.
Failure_Untitled(w, error) ==
    [title |-> <<"Video {position}", worker[w].position>>, error |-> error]

\* The failure dict for the current entry.
Failure(w, error) == [title |-> Title(w), error |-> error]

\* (mutant) an entry without URL is handed to the fetcher like any other.
UpdateJobStatus_FetchesAnyway(w) ==
    /\ worker[w].pc \in {"cancel_status", "info_status"}
    /\ LET cancelled == worker[w].pc = "cancel_status"
           level == IF cancelled THEN "warning" ELSE "info"
           message == IF cancelled THEN MsgCancelledByUser
                      ELSE MsgDownloading(Title(w), worker[w].position,
                                          total_items(w))
           return == IF cancelled
                     THEN Goto(w, Leave(worker[w], "cancelled"), "finalize_job")
                     ELSE Goto(w, worker[w], "download")
       IN IF worker[w].step = ""
          THEN IF job_matches(w)
               THEN /\ job' = [job EXCEPT !.status_type = level]
                    /\ Step(w, worker[w], "status_message")
               ELSE /\ return
                    /\ UNCHANGED job
          ELSE /\ job' = [job EXCEPT !.status_message = message]
               /\ return
    /\ UNCHANGED <<event, CallerVars>>

\* update_job_status(job_id, level, message), called by status_callback at
\* the cancel break ("cancel_status", then the loop and the with block are
\* left) and before each entry ("info_status", then the video_url check).
UpdateJobStatus(w) ==
    /\ worker[w].pc \in {"cancel_status", "info_status"}
    /\ LET cancelled == worker[w].pc = "cancel_status"
           level == IF cancelled THEN "warning" ELSE "info"
           message == IF cancelled THEN MsgCancelledByUser
                      ELSE MsgDownloading(Title(w), worker[w].position,
                                          total_items(w))
           return == IF cancelled
                     THEN Goto(w, Leave(worker[w], "cancelled"), "finalize_job")
                     ELSE IF entry(w).url # None
                          THEN Goto(w, worker[w], "download")
                          ELSE Goto(w, [worker[w] EXCEPT !.cur =
                                          Some(Failure(w, MsgMissingUrl))],
                                    "failure_callback")
       IN IF worker[w].step = ""
          THEN IF job_matches(w)
               THEN /\ job' = [job EXCEPT !.status_type = level]
                    /\ Step(w, worker[w], "status_message")
               ELSE /\ return
                    /\ UNCHANGED job
          ELSE /\ job' = [job EXCEPT !.status_message = message]
               /\ return
    /\ UNCHANGED <<event, CallerVars>>

\* The file sets one ydl.download call can add to the scratch directory.
ProducedExts == {{}, {"mp4"}, {"webm", "m4a"}}
ProducedExtsFew == {{}, {"webm", "m4a"}}
File(w, ext) == [stem |-> worker[w].position, ext |-> ext]

\* file_info for the chosen media file (duration, mime and token, which
\* nothing in the job reads back, are left out).
FileInfo(w, f) ==
    [title |-> Title(w),
     filename |-> <<f.stem, " | Music Bank ", f.ext>>,
     data |-> <<"bytes of", f.stem, f.ext>>,
     url |-> entry(w).url[1],
     position |-> worker[w].position]

\* (mutant) the media file is chosen among all the files in the scratch
\* directory, not among the new ones.
Download_AnyFile(w, produced) ==
    /\ worker[w].pc = "download"
    /\ \/ Goto(w, [worker[w] EXCEPT !.cur = Some(Failure(w, MsgFetchError))],
               "failure_callback")
       \/ \E exts \in produced :
            LET before_download == worker[w].scratch
                after_download == before_download
                                    \cup {File(w, e) : e \in exts}
            IN \E media_file \in choose_media_file(after_download,
                                                   Lower(worker[w].media_format)) :
                 IF media_file = None
                 THEN Goto(w, [worker[w] EXCEPT
                                 !.scratch = after_download,
                                 !.cur = Some(Failure(w, MsgNotProduced))],
                           "failure_callback")
                 ELSE \/ Goto(w, [worker[w] EXCEPT
                                    !.scratch = after_download \ {media_file[1]},
                                    !.cur = Some(FileInfo(w, media_file[1]))],
                              "success_callback")
                      \/ Goto(w, Leave([worker[w] EXCEPT
                                          !.exc = Some(MsgReadError)],
                                       "exception"),
                              "register_error")
    /\ UNCHANGED <<job, event, CallerVars>>

\* ydl.download([video_url]) and what follows up to the callback: the
\* directory snapshots, choose_media_file, read_bytes and unlink.
Download(w, produced) ==
    /\ worker[w].pc = "download"
    /\ \/ \* ydl.download raises
          Goto(w, [worker[w] EXCEPT !.cur = Some(Failure(w, MsgFetchError))],
               "failure_callback")
       \/ \E exts \in produced :
            LET before_download == worker[w].scratch
                after_download == before_download
                                    \cup {File(w, e) : e \in exts}
                new_candidates == after_download \ before_download
            IN \E media_file \in choose_media_file(new_candidates,
                                                   Lower(worker[w].media_format)) :
                 IF media_file = None
                 THEN Goto(w, [worker[w] EXCEPT
                                 !.scratch = after_download,
                                 !.cur = Some(Failure(w, MsgNotProduced))],
                           "failure_callback")
                 ELSE \/ \* read_bytes and unlink succeed
                         Goto(w, [worker[w] EXCEPT
                                    !.scratch = after_download \ {media_file[1]},
                                    !.cur = Some(FileInfo(w, media_file[1]))],
                              "success_callback")
                      \/ \* read_bytes raises: the exception leaves the with
                         \* block and download_playlist
                         Goto(w, Leave([worker[w] EXCEPT
                                          !.exc = Some(MsgReadError)],
                                       "exception"),
                              "register_error")
    /\ UNCHANGED <<job, event, CallerVars>>

\* (mutant) a failed entry is recorded and the loop goes on without the
\* progress report.
RegisterFailure_NoProgress(w) ==
    /\ worker[w].pc = "failure_callback"
    /\ job' = IF job_matches(w)
              THEN [job EXCEPT !.failures = Append(@, worker[w].cur[1])]
              ELSE job
    /\ IF worker[w].position < total_items(w)
       THEN Goto(w, [worker[w] EXCEPT !.cur = None, !.position = @ + 1], "loop")
       ELSE Goto(w, Leave(worker[w], "exhausted"), "finalize_job")
    /\ UNCHANGED <<event, CallerVars>>

\* (mutant) the failure is reported and not stored.
RegisterFailure_Dropped(w) ==
    /\ worker[w].pc = "failure_callback"
    /\ Goto(w, worker[w], "progress_callback")
    /\ UNCHANGED <<job, event, CallerVars>>

\* register_failure(job_id, failure), called by failure_callback.
RegisterFailure(w) ==
    /\ worker[w].pc = "failure_callback"
    /\ job' = IF job_matches(w)
              THEN [job EXCEPT !.failures = Append(@, worker[w].cur[1])]
              ELSE job
    /\ Goto(w, worker[w], "progress_callback")
    /\ UNCHANGED <<event, CallerVars>>

\* (mutant) a downloaded item is stored and the loop goes on without the
\* progress report.
RegisterSuccess_NoProgress(w) ==
    /\ worker[w].pc = "success_callback"
    /\ job' = IF job_matches(w)
              THEN [job EXCEPT !.items = Append(@, worker[w].cur[1])]
              ELSE job
    /\ IF worker[w].position < total_items(w)
       THEN Goto(w, [worker[w] EXCEPT !.cur = None, !.position = @ + 1], "loop")
       ELSE Goto(w, Leave(worker[w], "exhausted"), "finalize_job")
    /\ UNCHANGED <<event, CallerVars>>

\* (mutant) a downloaded item is stored as a success and as a failure.
RegisterSuccess_Both(w) ==
    /\ worker[w].pc = "success_callback"
    /\ job' = [job EXCEPT !.items = Append(@, worker[w].cur[1]),
                          !.failures = Append(@, [title |-> worker[w].cur[1].title,
                                                  error |-> MsgNotProduced])]
    /\ Goto(w, worker[w], "progress_callback")
    /\ UNCHANGED <<event, CallerVars>>

\* (mutant) a download that ends after a cancel request is thrown away.
RegisterSuccess_UnlessCancelled(w) ==
    /\ worker[w].pc = "success_callback"
    /\ job' = IF job_matches(w) /\ ~event[w]
              THEN [job EXCEPT !.items = Append(@, worker[w].cur[1])]
              ELSE job
    /\ Goto(w, worker[w], "progress_callback")
    /\ UNCHANGED <<event, CallerVars>>

\* register_success(job_id, file_info), called by success_callback.
RegisterSuccess(w) ==
    /\ worker[w].pc = "success_callback"
    /\ job' = IF job_matches(w)
              THEN [job EXCEPT !.items = Append(@, worker[w].cur[1])]
              ELSE job
    /\ Goto(w, worker[w], "progress_callback")
    /\ UNCHANGED <<event, CallerVars>>

\* update_job_progress(job_id, value, text), called by progress_callback
\* with position / total_items; then the next iteration, or the end of the
\* loop, of the with block and of download_playlist.
UpdateJobProgress(w) ==
    /\ worker[w].pc = "progress_callback"
    /\ LET value == Frac(worker[w].position, total_items(w))
           text == MsgProcessed(worker[w].position, total_items(w))
           return == IF worker[w].position < total_items(w)
                     THEN Goto(w, [worker[w] EXCEPT !.cur = None,
                                                    !.position = @ + 1], "loop")
                     ELSE Goto(w, Leave(worker[w], "exhausted"), "finalize_job")
       IN IF worker[w].step = ""
          THEN IF job_matches(w)
               THEN /\ job' = [job EXCEPT !.progress_value = Clamp01(value)]
                    /\ Step(w, worker[w], "progress_text")
               ELSE /\ return
                    /\ UNCHANGED job
          ELSE /\ job' = [job EXCEPT !.progress_text = text]
               /\ return
    /\ UNCHANGED <<event, CallerVars>>

\* The zip finalize_job writes: one (filename, data) entry per item, in order.
ZipOf(items) == [i \in 1..Len(items) |-> <<items[i].filename, items[i].data>>]

\* archive_name, from job.get("playlist_title") and media_format.
ArchiveName(playlist_title, media_format) ==
    <<slugify(IF TruthyStr(playlist_title) THEN playlist_title[1]
              ELSE StrYoutubePlaylist), Lower(media_format), "s.zip">>

\* finalize_job's test for the success branch:
\* `job.get("error") is None and job.get("status_type") != "warning"`.
ErrorIsNone(j) == j.error = None
\* (mutant) finalize_job does not test for the warning status.
NotWarning_Always(j) == TRUE

NotWarning(j) == j.status_type # "warning"

\* finalize_job's progress in the warning branch.
CancelledProgress(j) ==
    LET done == Len(j.items) + Len(j.failures)
        total == IF TruthyInt(j.playlist_total) THEN j.playlist_total[1]
                 ELSE Max(done, 1)
    IN IF FracLeq(FracOne, Frac(done, total)) THEN FracOne
       ELSE Frac(done, total)

\* An Event nobody can reach any more is garbage: worker w reads its own
\* Event for the last time in the loop, every other thread reaches it only
\* through job["cancel_event"].
Collect(w, j) == IF j.cancel_event = Some(w) THEN event
                 ELSE [event EXCEPT ![w] = FALSE]

\* The thread ends (worker()'s finally clause only asks for a rerun): its
\* locals are gone.
Finish(w) ==
    /\ worker' = [worker EXCEPT ![w] = [IdleWorker EXCEPT !.pc = "done"]]
    /\ event' = Collect(w, job')

\* finalize_job(job_id, playlist_info, media_format), one access to the
\* shared dict per step, in the order of the source; step names the
\* statement the thread is at.
FinalizeJob(w) ==
    /\ worker[w].pc = "finalize_job"
    /\ LET k == worker[w].step
           me == worker[w]
           at(n) == /\ Step(w, me, n)
                    /\ UNCHANGED event
           read(r, n) == /\ Step(w, r, n)
                         /\ UNCHANGED <<job, event>>
       IN CASE k = "" ->   \* if not job_matches(job_id): return
                 IF job_matches(w)
                 THEN /\ job' = [job EXCEPT !.running = FALSE]
                      /\ at("cancel_event")
                 ELSE /\ UNCHANGED job
                      /\ Finish(w)
            [] k = "cancel_event" ->
                 /\ job' = [job EXCEPT !.cancel_event = None]
                 /\ Step(w, me, "playlist_title")
                 /\ event' = Collect(w, job')
            [] k = "playlist_title" ->   \* playlist_info is a non-empty dict
                 /\ job' = [job EXCEPT !.playlist_title = me.title]
                 /\ Step(w, [me EXCEPT !.title = None], "if_items")
                 /\ UNCHANGED event
            [] k = "if_items" ->   \* if job["items"]:
                 IF job.items # <<>> THEN read(me, "archive_title")
                 ELSE read([me EXCEPT !.media_format = ""], "if_error")
            [] k = "archive_title" ->   \* archive_title, archive_name
                 read([me EXCEPT !.tmp1 =
                         Some(ArchiveName(job.playlist_title, me.media_format)),
                                 !.media_format = ""],
                      "writestr")
            [] k = "writestr" ->   \* for file_info in job["items"]: writestr
                 read([me EXCEPT !.tmp2 = Some(ZipOf(job.items))],
                      "archive_data")
            [] k = "archive_data" ->
                 /\ job' = [job EXCEPT !.archive_data = me.tmp2]
                 /\ Step(w, [me EXCEPT !.tmp2 = None], "archive_name")
                 /\ UNCHANGED event
            [] k = "archive_name" ->
                 /\ job' = [job EXCEPT !.archive_name = me.tmp1]
                 /\ Step(w, [me EXCEPT !.tmp1 = None], "if_error")
                 /\ UNCHANGED event
            [] k = "if_error" ->   \* job.get("error") is None
                 IF ErrorIsNone(job) THEN read(me, "if_not_warning")
                 ELSE read(me, "if_warning")
            [] k = "if_not_warning" ->   \* job.get("status_type") != "warning"
                 IF NotWarning(job) THEN read(me, "success_count")
                 ELSE read(me, "if_warning")
            [] k = "success_count" ->   \* len(job["items"])
                 read([me EXCEPT !.tmp1 = Some(Len(job.items))],
                      "failure_count")
            [] k = "failure_count" ->   \* len(job["failures"])
                 read([me EXCEPT !.tmp2 = Some(Len(job.failures))],
                      "status_type")
            [] k = "status_type" ->
                 /\ job' = [job EXCEPT !.status_type = "success"]
                 /\ at("status_message")
            [] k = "status_message" ->
                 /\ job' = [job EXCEPT !.status_message =
                       MsgCompleted(IF TruthyStr(job.playlist_title)
                                    THEN job.playlist_title[1] ELSE ThePlaylist,
                                    me.tmp1[1], me.tmp1[1] + me.tmp2[1])]
                 /\ Step(w, [me EXCEPT !.tmp1 = None, !.tmp2 = None],
                         "if_warning")
                 /\ UNCHANGED event
            [] k = "if_warning" ->   \* if job.get("status_type") == "warning":
                 IF job.status_type = "warning"
                 THEN read(me, "cancelled_value")
                 ELSE read(me, "complete_value")
            [] k = "cancelled_value" ->
                 /\ job' = [job EXCEPT !.progress_value = CancelledProgress(job)]
                 /\ at("cancelled_text")
            [] k = "cancelled_text" ->
                 /\ job' = [job EXCEPT !.progress_text = MsgDownloadCancelled]
                 /\ Finish(w)
            [] k = "complete_value" ->
                 /\ job' = [job EXCEPT !.progress_value = FracOne]
                 /\ at("complete_text")
            [] OTHER ->   \* k = "complete_text"
                 /\ job' = [job EXCEPT !.progress_text = MsgDownloadsComplete]
                 /\ Finish(w)
    /\ UNCHANGED CallerVars

\* register_error(job_id, error), one access to the shared dict per step.
RegisterError(w) ==
    /\ worker[w].pc = "register_error"
    /\ LET k == worker[w].step
           at(n) == /\ Step(w, worker[w], n)
                    /\ UNCHANGED event
       IN CASE k = "" ->   \* if not job_matches(job_id): return
                 IF job_matches(w)
                 THEN /\ job' = [job EXCEPT !.error = worker[w].exc]
                      /\ at("status_type")
                 ELSE /\ UNCHANGED job
                      /\ Finish(w)
            [] k = "status_type" ->
                 /\ job' = [job EXCEPT !.status_type = "error"]
                 /\ at("status_message")
            [] k = "status_message" ->
                 /\ job' = [job EXCEPT !.status_message = worker[w].exc[1]]
                 /\ at("running")
            [] k = "running" ->
                 /\ job' = [job EXCEPT !.running = FALSE]
                 /\ at("cancel_event")
            [] OTHER ->   \* k = "cancel_event"
                 /\ job' = [job EXCEPT !.cancel_event = None]
                 /\ Finish(w)
    /\ UNCHANGED CallerVars

WorkerStep(w, outcomes, produced) ==
    \/ FetchPlaylistEntries(w, outcomes)
    \/ UpdateJobTotal(w)
    \/ LoopTop(w)
    \/ UpdateJobStatus(w)
    \/ Download(w, produced)
    \/ RegisterFailure(w)
    \/ RegisterSuccess(w)
    \/ UpdateJobProgress(w)
    \/ FinalizeJob(w)
    \/ RegisterError(w)

CallerStep(requests, maxJobs) ==
    \/ \E req \in requests : Submit(req, maxJobs)
    \/ CancelCheck
    \/ CancelSet
    \/ CancelStatusType
    \/ CancelStatusMessage

\* A session that starts up to MaxJobs jobs, one after the other: a worker
\* still inside finalize_job or register_error runs beside the next job.
Next ==
    \/ CallerStep(RequestsFew, MaxJobs)
    \/ \E w \in JobIds :
         WorkerStep(w, ExtractOutcomes(PlaylistTitlesFew, MaxRaceEntries),
                    ProducedExtsFew)

Spec == Init /\ [][Next]_vars

\* A session that starts one job, with longer playlists and more formats.
NextLoop ==
    \/ CallerStep(Requests, 1)
    \/ \E w \in JobIds :
         WorkerStep(w, ExtractOutcomes(PlaylistTitles, MaxEntries),
                    ProducedExts)

SpecLoop == Init /\ [][NextLoop]_vars

\* A session of one job in which the form is submitted until a job starts
\* and the script thread then only handles the cancel button.
SubmitOnce(req) ==
    /\ nextId = 0
    /\ Submit(req, 1)

NextCancel ==
    \/ \E req \in Requests : SubmitOnce(req)
    \/ CancelCheck
    \/ CancelSet
    \/ CancelStatusType
    \/ CancelStatusMessage
    \/ \E w \in JobIds :
         WorkerStep(w, ExtractOutcomes(PlaylistTitles, MaxEntries), ProducedExts)

SpecCancel == Init /\ [][NextCancel]_vars

\* The reporter callbacks as functions of their job id: the thread of job 1
\* runs against a Job State that holds no job, job 1 or a later job.  (The
\* script thread starts a job only when running is false, which a worker
\* stores after its loop: in a session the callbacks of a worker always
\* find their own job id, and the test in job_matches is a safeguard.)
WorkerOf(req) ==
    [IdleWorker EXCEPT !.pc = "fetch_playlist_entries",
                       !.media_format = req.media_format,
                       !.max_items = req.max_items]

InitStale ==
    /\ job \in {initialize_job_state}
                \cup {NewJob(initialize_job_state, id, req) :
                        id \in JobIds, req \in Requests}
    /\ \E req \in Requests :
         worker = [i \in JobIds |-> IF i = 1 THEN WorkerOf(req) ELSE IdleWorker]
    /\ event \in [JobIds -> BOOLEAN]
    /\ nextId = MaxJobs
    /\ cpc = "idle"
    /\ cres = "none"
    /\ centry = FALSE

NextStale ==
    \E w \in JobIds :
      WorkerStep(w, ExtractOutcomes(PlaylistTitles, MaxEntries), ProducedExts)

SpecStale == InitStale /\ [][NextStale]_vars

\* A session in which the form is submitted again and again, with or
\* without an item cap, and the cancel button is never pressed.
NextRestart ==
    \/ \E req \in Requests : Submit(req, MaxJobs)
    \/ \E w \in JobIds :
         WorkerStep(w, ExtractOutcomes(PlaylistTitlesFew, MaxRaceEntries),
                    ProducedExtsFew)

SpecRestart == Init /\ [][NextRestart]_vars

\* update_job_progress as a function of its value argument: a session of
\* one job in which progress_callback may also be invoked with any value
\* (download_playlist itself passes position / total_items only).
ProgressValues == {<<0 - 1, 2>>, <<0, 1>>, <<1, 2>>, <<1, 1>>, <<3, 2>>}

ProgressCallbackWith(w, value) ==
    /\ worker[w].pc = "progress_callback"
    /\ worker[w].step = ""
    /\ job_matches(w)
    /\ job' = [job EXCEPT !.progress_value = Clamp01(value)]
    /\ Step(w, worker[w], "progress_text")
    /\ UNCHANGED <<event, CallerVars>>

NextProgress ==
    \/ NextLoop
    \/ \E w \in JobIds, value \in ProgressValues : ProgressCallbackWith(w, value)

SpecProgress == Init /\ [][NextProgress]_vars

\* The session of SpecLoop with every worker thread scheduled fairly: a
\* thread that can take a step eventually takes one, which includes that
\* the calls into the metadata engine and the downloader return or raise.
\* Nothing is assumed of the script thread.
FairLoop ==
    \A w \in JobIds :
      WF_vars(WorkerStep(w, ExtractOutcomes(PlaylistTitles, MaxEntries),
                         ProducedExts))

SpecLoopFair == SpecLoop /\ FairLoop

\* The session of SpecCancel with its threads scheduled: the worker thread
\* runs on, and a call of cancel_download_job that passed its first guard
\* runs to its return.  The user is not obliged to press anything.
FairCancel == WF_vars(CancelSet \/ CancelStatusType \/ CancelStatusMessage)
SpecCancelFair == SpecCancel /\ FairLoop /\ FairCancel

\* choose_media_file as a function of its arguments: each thread is at a
\* call with the same candidates (held in scratch) and media_format, and
\* the step stores what the call returns in cur.
MaxCandidates == 3
CandidateStems == {1, 2}
CandidateExts == {"mp3", "MP3", "m4a", "webm", "mp4", "ogg", "txt"}
CandidateFiles == {[stem |-> n, ext |-> e] : n \in CandidateStems,
                                              e \in CandidateExts}
CandidateSets == {c \in SUBSET CandidateFiles : Cardinality(c) <= MaxCandidates}

InitChoose ==
    /\ job = initialize_job_state
    /\ event = [i \in JobIds |-> FALSE]
    /\ nextId = 0
    /\ cpc = "idle"
    /\ cres = "none"
    /\ centry = FALSE
    /\ \E c \in CandidateSets, fmt \in {"MP3", "MP4"} :
         worker = [i \in JobIds |->
                     [IdleWorker EXCEPT !.pc = "choose_media_file",
                                        !.scratch = c,
                                        !.media_format = fmt]]

ChooseMediaFile(w) ==
    /\ worker[w].pc = "choose_media_file"
    /\ \E media_file \in choose_media_file(worker[w].scratch,
                                           Lower(worker[w].media_format)) :
         Goto(w, [worker[w] EXCEPT !.cur = Some(media_file)], "returned")
    /\ UNCHANGED <<job, event, CallerVars>>

NextChoose == \E w \in JobIds : ChooseMediaFile(w)

SpecChoose == InitChoose /\ [][NextChoose]_vars

\* The archive name as a function of the playlist title and the format:
\* each thread is at finalize_job's archive_title, archive_name statements
\* with a title (held in title) and a media_format, and the step stores the
\* name in tmp1.
MaxTitleLen == 3
TitleChars == {"a", "-", " ", "!", "_"}
TitleStrings == UNION {[1..n -> TitleChars] : n \in 0..MaxTitleLen}

InitName ==
    /\ job = initialize_job_state
    /\ event = [i \in JobIds |-> FALSE]
    /\ nextId = 0
    /\ cpc = "idle"
    /\ cres = "none"
    /\ centry = FALSE
    /\ \E t \in {None} \cup {Some(x) : x \in TitleStrings},
          fmt \in {"MP3", "MP4"} :
         worker = [i \in JobIds |->
                     [IdleWorker EXCEPT !.pc = "archive_name",
                                        !.title = t,
                                        !.media_format = fmt]]

ArchiveNameCall(w) ==
    /\ worker[w].pc = "archive_name"
    /\ Goto(w, [worker[w] EXCEPT !.tmp1 =
                  Some(ArchiveName(worker[w].title, worker[w].media_format))],
            "named")
    /\ UNCHANGED <<job, event, CallerVars>>

NextName == \E w \in JobIds : ArchiveNameCall(w)

SpecName == InitName /\ [][NextName]_vars

\* ================================================================ claims
\* The fields a reader takes as final once running is false.
TerminalFields == <<job.archive_data, job.archive_name, job.status_type,
                    job.status_message, job.progress_value, job.progress_text>>
\* A step of a worker thread (every worker step moves its pc or step), a
\* step inside cancel_download_job's body.
WorkerMoves == worker' # worker /\ nextId' = nextId
CancelMoves == cpc \in CancelPcs /\ cpc' # cpc
Active(w) == worker[w].pc \notin {"unborn", "done"}

\* C1: running = false is a safe-to-read signal: while running is false no
\* worker writes archive, status, statusMessage or progress.
C1_SafeToRead ==
    [][(~job.running /\ WorkerMoves) => TerminalFields' = TerminalFields]_vars

\* C2: in every reachable state, running = true implies that the archive
\* is absent and terminalError is empty.
C2_RunningImpliesNoArchiveNoError ==
    job.running => (job.archive_data = None /\ job.error = None)

\* C3: at most one worker can still write Job State at any time.
C3_OneActiveWorker ==
    Cardinality({w \in JobIds : Active(w)}) <= 1

ToolUnavailableStep ==
    cpc = "idle" /\ worker' = worker /\ cres' = "ToolUnavailable"
      /\ (job' # job \/ cres # "ToolUnavailable")

C6_ExactlyOneOutcome ==
    (job.job_id # None /\ ~job.running /\ cpc = "idle"
       /\ cres # "ToolUnavailable" /\ \A w \in JobIds : ~Active(w))
      => LET a == job.error # None
             b == job.archive_data # None
             c == job.items = <<>> /\ job.status_type = "success"
         IN (a /\ ~b /\ ~c) \/ (~a /\ b /\ ~c) \/ (~a /\ ~b /\ c)

\* The step of finalize_job that stores running = False for a run whose
\* loop went through every entry (no cancel break, no exception).
CompletesAt(w) ==
    /\ worker[w].pc = "finalize_job" /\ worker[w].step = ""
    /\ worker'[w] # worker[w]
    /\ worker[w].ended = "exhausted"
    /\ job.running /\ ~job'.running

\* C7: when a job that was neither cancelled nor ended by a terminal error
\* has running become false, len(items) + len(failures) = totalItems.
C7_AllEntriesAccounted ==
    [][\A w \in JobIds :
         CompletesAt(w)
           => /\ job'.playlist_total # None
              /\ Len(job'.items) + Len(job'.failures) = job'.playlist_total[1]]_vars
C7_Witness ==
    \E w \in JobIds :
      /\ worker[w].pc = "finalize_job" /\ worker[w].step = "cancel_event"
      /\ worker[w].ended = "exhausted" /\ ~job.running
      /\ job.job_id = Some(w) /\ job.playlist_total = Some(MaxEntries)
      /\ job.items # <<>> /\ job.failures # <<>>

\* The statements of the for loop, and the entries the loop has given a
\* disposition: those before the current one, and the current one once its
\* callback has returned.
LoopPcs == {"loop", "cancel_status", "info_status", "download",
            "failure_callback", "success_callback", "progress_callback"}
Processed(w) == IF worker[w].pc = "progress_callback"
                THEN worker[w].position ELSE worker[w].position - 1
TitleAt(w, p) == IF TruthyStr(worker[w].entries[p].title)
                 THEN worker[w].entries[p].title[1]
                 ELSE <<"Video {position}", p>>
ItemPositions == {job.items[i].position : i \in 1..Len(job.items)}
Nth(S, i) == CHOOSE x \in S : Cardinality({y \in S : y < x}) = i - 1
GrowsByOne(old, new) == Len(new) = Len(old) + 1 /\ SubSeq(new, 1, Len(old)) = old

\* C8: while a job runs, items and failures only grow by appending (one
\* record per callback, to one list), and they partition the processed
\* entries: items holds, in order, distinct processed positions, failures
\* holds, in order, one record for every other processed position, so
\* len(items) + len(failures) is the number of entries processed so far.
C8_Partition ==
    \A w \in JobIds :
      (job.running /\ job.job_id = Some(w) /\ worker[w].pc \in LoopPcs)
        => LET done == 1..Processed(w)
               rest == done \ ItemPositions
           IN /\ Len(job.items) + Len(job.failures) = Processed(w)
              /\ ItemPositions \subseteq done
              /\ \A i, j \in 1..Len(job.items) :
                    i < j => job.items[i].position < job.items[j].position
              /\ \A i \in 1..Len(job.items) :
                    job.items[i].title = TitleAt(w, job.items[i].position)
              /\ Len(job.failures) = Cardinality(rest)
              /\ \A i \in 1..Len(job.failures) :
                    job.failures[i].title = TitleAt(w, Nth(rest, i))
C8_AppendOnly ==
    [][(job.running /\ job'.job_id = job.job_id)
         => \/ job'.items = job.items /\ job'.failures = job.failures
            \/ /\ \E w \in JobIds :
                     /\ worker[w].pc \in {"success_callback", "failure_callback"}
                     /\ worker'[w].pc = "progress_callback"
                /\ \/ GrowsByOne(job.items, job'.items)
                         /\ job'.failures = job.failures
                   \/ GrowsByOne(job.failures, job'.failures)
                         /\ job'.items = job.items]_vars
C8_ListsPartitionProcessed == []C8_Partition /\ C8_AppendOnly
C8_Witness ==
    \E w \in JobIds :
      /\ job.running /\ job.job_id = Some(w)
      /\ worker[w].pc = "progress_callback" /\ worker[w].position = MaxEntries
      /\ Len(job.items) = 1 /\ job.items[1].position = MaxEntries
      /\ Len(job.failures) = MaxEntries - 1

\* C9: once the job is not running a cancel call has no effect: a step of
\* cancel_download_job taken while running is false neither fails nor
\* changes Job State (the terminal status among it).
C9_LateCancelHarmless ==
    [][(CancelMoves /\ ~job.running)
         => (job' = job /\ cres' # "AttributeError")]_vars

\* C10: a cancel call that finds cancelRequested already set changes
\* nothing; a first call on a running job sets cancelRequested and then
\* stores status WARNING and "Cancelling download...".
C10_CancelIdempotent ==
    [][CancelMoves
         => /\ centry => (job' = job /\ event' = event /\ cpc' = "idle")
            /\ (cpc = "cancel_set" /\ ~centry /\ job.cancel_event # None)
                  => (event'[job.cancel_event[1]] /\ job' = job
                      /\ cpc' = "cancel_status_type")
            /\ cpc = "cancel_status_type"
                  => (job' = [job EXCEPT !.status_type = "warning"]
                      /\ cpc' = "cancel_status_message")
            /\ cpc = "cancel_status_message"
                  => job' = [job EXCEPT !.status_message = MsgCancelling]]_vars
C10_Witness ==
    /\ cres = "AlreadyRequested" /\ cpc = "idle" /\ job.running
    /\ job.cancel_event # None /\ event[job.cancel_event[1]]
    /\ job.status_type = "info"

\* The last step of finalize_job for the job that worker w runs, after its
\* loop ended as `how` says.
FinalizesAt(w, how) ==
    /\ worker[w].pc = "finalize_job" /\ worker[w].ended = how
    /\ worker'[w].pc = "done"
    /\ job.job_id = Some(w)
\* (completed + failed) / max(total, 1), clamped to 1.0.
DoneFraction(j) ==
    Clamp01(Frac(Len(j.items) + Len(j.failures),
                 Max(IF j.playlist_total = None THEN 0 ELSE j.playlist_total[1], 1)))

AfterLoopPcs == {"finalize_job", "register_error", "done"}
Moves(w) == worker'[w] # worker[w]
ListsUnchanged == job'.items = job.items /\ job'.failures = job.failures

\* C12: if the cancel Event is set when the worker makes the check at the
\* top of iteration k, the worker reports WARNING "Download cancelled by
\* user." and leaves the loop: entry k and the later entries are never
\* fetched and get no record in items or failures.
C12_CancelStopsLoop ==
    [][\A w \in JobIds :
         Moves(w)
           => /\ (worker[w].pc = "loop" /\ event[w])
                    => (worker'[w].pc = "cancel_status" /\ job' = job)
              /\ worker[w].pc = "cancel_status"
                    => /\ worker'[w].pc \in {"cancel_status", "finalize_job"}
                       /\ ListsUnchanged
                       /\ (worker[w].step = "" /\ job_matches(w))
                             => job'.status_type = "warning"
                       /\ worker[w].step = "status_message"
                             => job'.status_message = MsgCancelledByUser
                       /\ (worker'[w].pc = "finalize_job" /\ job_matches(w))
                             => /\ Len(job'.items) + Len(job'.failures)
                                      = worker[w].position - 1
                                /\ \A i \in 1..Len(job'.items) :
                                      job'.items[i].position < worker[w].position
              /\ worker[w].pc \in AfterLoopPcs
                    => (worker'[w].pc \in AfterLoopPcs /\ ListsUnchanged)]_vars
C12_Witness ==
    \E w \in JobIds :
      /\ worker[w].pc = "finalize_job" /\ worker[w].ended = "cancelled"
      /\ job.job_id = Some(w) /\ job.playlist_total = Some(MaxEntries)
      /\ Len(job.items) = 1 /\ job.failures = <<>>
      /\ job.status_type = "warning"
      /\ job.status_message = MsgCancelledByUser

\* C13: a cancel request does not interrupt the entry in flight and takes
\* effect before the next one begins.  Once the Event is set, the entry
\* the worker is at goes on to its record (item or failure) and its
\* progress report exactly as without the request, the loop is left only
\* at the check at the top of an iteration, and that check starts no
\* further entry: at most one more entry gets a disposition.
C13_CancelBetweenEntries ==
    [][\A w \in JobIds :
         (Moves(w) /\ event[w])
           => LET pc == worker[w].pc
                  pc2 == worker'[w].pc
              IN /\ pc = "loop" => pc2 = "cancel_status"
                 /\ pc2 = "cancel_status" => pc \in {"loop", "cancel_status"}
                 /\ pc2 = "info_status" => pc = "info_status"
                 /\ pc = "info_status"
                       => pc2 \in {"info_status", "download", "failure_callback"}
                 /\ pc = "download"
                       => pc2 \in {"failure_callback", "success_callback",
                                   "register_error"}
                 /\ pc = "failure_callback"
                       => /\ pc2 = "progress_callback"
                          /\ job_matches(w)
                               => /\ job'.failures
                                       = Append(job.failures, worker[w].cur[1])
                                  /\ job'.items = job.items
                 /\ pc = "success_callback"
                       => /\ pc2 = "progress_callback"
                          /\ job_matches(w)
                               => /\ job'.items
                                       = Append(job.items, worker[w].cur[1])
                                  /\ job'.failures = job.failures
                 /\ pc = "progress_callback"
                       => /\ pc2 \in {"progress_callback", "loop", "finalize_job"}
                          /\ (worker[w].step = "" /\ job_matches(w))
                               => job'.progress_value
                                    = Frac(worker[w].position, total_items(w))
                 /\ pc \in LoopPcs \ {"progress_callback"}
                       => (pc2 \in LoopPcs
                             => worker'[w].position = worker[w].position)]_vars
C13_Witness ==
    \E w \in JobIds :
      /\ event[w] /\ job.job_id = Some(w) /\ job.running
      /\ worker[w].pc = "loop" /\ worker[w].position = MaxEntries
      /\ Len(job.items) = 1 /\ job.failures = <<>>
      /\ job.items[1].position = MaxEntries - 1
      /\ job.progress_text = MsgProcessed(MaxEntries - 1, MaxEntries)
      /\ job.status_message = MsgCancelling

\* C14: within one run the progress values that the worker writes (in
\* update_job_progress and in finalize_job) never lower the progress in
\* Job State, and the value that finalize_job writes for a run whose loop
\* went through every entry is 1.0.
C14_ProgressMonotonic ==
    [][\A w \in JobIds :
         (Moves(w) /\ job.job_id = Some(w))
           => /\ FracLeq(job.progress_value, job'.progress_value)
              /\ (worker[w].pc = "finalize_job" /\ worker[w].ended = "exhausted")
                    => /\ worker[w].step \in {"cancelled_value", "complete_value"}
                             => job'.progress_value = FracOne
                       /\ worker'[w].pc = "done"
                             => worker[w].step \in {"cancelled_text", "complete_text"}]_vars

\* C15: within one run total_callback is invoked before any success,
\* failure or progress callback, and the outcome callback and then the
\* progress callback of entry N are invoked before the status report and
\* the download of entry N+1.
C15_TotalBeforeItems ==
    \A w \in JobIds :
      (worker[w].pc \in LoopPcs /\ job.job_id = Some(w))
        => /\ job.playlist_total = Some(total_items(w))
           /\ worker[w].position \in 1..total_items(w)
C15_Order ==
    [][\A w \in JobIds :
         Moves(w)
           => LET pc == worker[w].pc
                  pc2 == worker'[w].pc
              IN /\ (pc2 \in LoopPcs /\ pc \notin LoopPcs)
                       => (pc = "total_callback" /\ pc2 = "loop"
                           /\ worker'[w].position = 1)
                 /\ pc2 = "total_callback" => pc = "fetch_playlist_entries"
                 /\ (pc2 \in LoopPcs /\ pc \in LoopPcs
                        /\ worker'[w].position # worker[w].position)
                       => /\ pc = "progress_callback" /\ pc2 = "loop"
                          /\ worker'[w].position = worker[w].position + 1
                 /\ (pc2 = "progress_callback" /\ pc # pc2)
                       => pc \in {"success_callback", "failure_callback"}
                 /\ (pc2 \in {"success_callback", "failure_callback"})
                       => pc \in {"info_status", "download"}
                 /\ pc2 = "download" => pc = "info_status"
                 /\ (pc2 = "info_status" /\ pc # pc2) => pc = "loop"]_vars
C15_CallbackOrder == []C15_TotalBeforeItems /\ C15_Order
C15_Witness ==
    \E w \in JobIds :
      /\ worker[w].pc = "info_status" /\ worker[w].position = MaxEntries
      /\ job.job_id = Some(w) /\ job.playlist_total = Some(MaxEntries)
      /\ Len(job.items) + Len(job.failures) = MaxEntries - 1
      /\ job.failures # <<>>
      /\ job.progress_text = MsgProcessed(MaxEntries - 1, MaxEntries)

\* C16: entries are processed in resolved order, each at most once.  The
\* loop's position only goes up, an entry is downloaded only while no
\* record of it or of a later entry exists, and items lists the
\* successes with strictly increasing positions, each record made from
\* the resolved entry at its position.
C16_ItemsInOrder ==
    /\ \A i, j \in 1..Len(job.items) :
          i < j => job.items[i].position < job.items[j].position
    /\ \A w \in JobIds :
          (worker[w].pc \in LoopPcs /\ job.job_id = Some(w))
            => \A i \in 1..Len(job.items) :
                 LET p == job.items[i].position
                 IN /\ p \in 1..Processed(w)
                    /\ worker[w].entries[p].url = Some(job.items[i].url)
                    /\ job.items[i].title = TitleAt(w, p)
C16_DownloadsInOrder ==
    [][\A w \in JobIds :
         Moves(w)
           => /\ (worker[w].pc \in LoopPcs /\ worker'[w].pc \in LoopPcs)
                    => worker'[w].position >= worker[w].position
              /\ (worker'[w].pc = "download" /\ job.job_id = Some(w))
                    => /\ worker[w].pc = "info_status"
                       /\ Len(job.items) + Len(job.failures)
                            = worker[w].position - 1
                       /\ \A i \in 1..Len(job.items) :
                            job.items[i].position < worker[w].position]_vars
C16_ResolvedOrder == []C16_ItemsInOrder /\ C16_DownloadsInOrder
C16_Witness ==
    /\ Len(job.items) = MaxEntries /\ job.failures = <<>>
    /\ \A i \in 1..MaxEntries : job.items[i].position = i
    /\ job.archive_data = Some(ZipOf(job.items))

\* The statements at which the worker is inside one of the five reporter
\* callbacks (total, status, success, failure, progress).
CallbackPcs == {"total_callback", "cancel_status", "info_status",
                "success_callback", "failure_callback", "progress_callback"}

\* C17: a reporter callback invoked with a job id that is not the current
\* job's id leaves every Job State field unchanged.
C17_StaleCallbackNoOp ==
    [][\A w \in JobIds :
         (Moves(w) /\ worker[w].pc \in CallbackPcs /\ job.job_id # Some(w))
           => job' = job]_vars
C17_Witness ==
    \E w \in JobIds :
      /\ job.job_id # None /\ job.job_id # Some(w) /\ job.running
      /\ worker[w].pc = "finalize_job" /\ worker[w].ended = "exhausted"
      /\ job.items = <<>> /\ job.failures = <<>>
      /\ job.playlist_total = None
      /\ job.progress_value = FracZero /\ job.status_type = "info"

\* The last step of register_error for the job that worker w runs.
AbortsAt(w) ==
    /\ worker[w].pc = "register_error" /\ worker'[w].pc = "done"
    /\ job.job_id = Some(w)

\* C18: if fetch_playlist_entries fails or finds no entry, the run is
\* aborted: when the worker ends, status is ERROR, terminalError and the
\* status message are the error's message, running is false, there is no
\* archive, and no item or failure has been recorded.
C18_ResolverFailureAborts ==
    [][\A w \in JobIds :
         (AbortsAt(w) /\ worker[w].exc \in {Some(MsgUnableToRetrieve),
                                             Some(MsgNotAPlaylist),
                                             Some(MsgNoVideos)})
           => /\ job'.status_type = "error"
              /\ job'.error = worker[w].exc
              /\ job'.status_message = worker[w].exc[1]
              /\ ~job'.running
              /\ job'.archive_data = None /\ job'.archive_name = None
              /\ job'.items = <<>> /\ job'.failures = <<>>
              /\ job'.playlist_total = None]_vars

\* The messages of the item-local errors.
ItemErrors == {MsgMissingUrl, MsgFetchError, MsgNotProduced}

\* C19: an item-local error at entry k is absorbed.  It is recorded as one
\* failure holding the entry's title and the error's message (the missing
\* URL message exactly for an entry without URL), the worker then reports
\* progress and goes on with entry k+1 or, after the last entry, with
\* finalize_job; register_error is never entered from a failure and no
\* item-local message ever becomes the terminal error.
C19_NoItemErrorIsTerminal ==
    job.error = None \/ job.error[1] \notin ItemErrors
C19_Absorbed ==
    [][\A w \in JobIds :
         Moves(w)
           => LET pc == worker[w].pc
                  pc2 == worker'[w].pc
                  k == worker[w].position
              IN /\ pc2 = "failure_callback"
                       => /\ worker'[w].cur
                               \in {Some([title |-> TitleAt(w, k), error |-> e]) :
                                      e \in ItemErrors}
                          /\ worker'[w].cur[1].error = MsgMissingUrl
                               <=> worker[w].entries[k].url = None
                          /\ worker'[w].position = k
                 /\ pc = "failure_callback"
                       => /\ pc2 = "progress_callback"
                          /\ worker'[w].position = k
                          /\ job_matches(w)
                               => /\ job'.failures
                                       = Append(job.failures, worker[w].cur[1])
                                  /\ job'.items = job.items
                                  /\ job'.error = None
                                  /\ job'.status_type # "error"
                 /\ (pc = "progress_callback" /\ pc2 # pc)
                       => IF k < total_items(w)
                          THEN pc2 = "loop" /\ worker'[w].position = k + 1
                          ELSE pc2 = "finalize_job"
                 /\ (pc2 = "register_error" /\ pc # pc2)
                       => /\ pc \in {"fetch_playlist_entries", "download"}
                          /\ worker'[w].exc # None
                          /\ worker'[w].exc[1] \notin ItemErrors]_vars
C19_ItemErrorsAbsorbed == []C19_NoItemErrorIsTerminal /\ C19_Absorbed
C19_Witness ==
    /\ \A w \in JobIds : ~Active(w)
    /\ ~job.running /\ job.error = None /\ job.status_type = "success"
    /\ job.playlist_total = Some(MaxEntries)
    /\ Len(job.failures) = MaxEntries /\ job.items = <<>>
    /\ job.failures[1].error = MsgFetchError
    /\ job.failures[MaxEntries].error = MsgMissingUrl
    /\ job.status_message = MsgCompleted(TitleX, 0, MaxEntries)

\* finalize_job for a run whose loop went through every entry, at
\* statement k, while the job is still worker w's.
FinalizeStep(w, k) ==
    /\ Moves(w) /\ job.job_id = Some(w)
    /\ worker[w].pc = "finalize_job" /\ worker[w].ended = "exhausted"
    /\ worker[w].step = k
CompletedMessage(j) ==
    <<"Completed {k} of {n} items from {title}.",
      IF j.playlist_title \notin {None, Some(<<>>)} THEN j.playlist_title[1]
      ELSE <<"t", "h", "e", " ", "p", "l", "a", "y", "l", "i", "s", "t">>,
      Len(j.items), Len(j.items) + Len(j.failures)>>

\* C20: when a run ends with neither a terminal error nor a cancellation
\* (finalize_job finds no error and a status other than WARNING), it sets
\* status SUCCESS, the message "Completed k of k+f items from <title or
\* 'the playlist'>." with k = len(items) and f = len(failures), progress
\* 1.0 and the text "Downloads complete!".
C20_SuccessMessage ==
    [][\A w \in JobIds :
         /\ FinalizeStep(w, "if_error")
              => worker'[w].step = IF job.error = None THEN "if_not_warning"
                                   ELSE "if_warning"
         /\ FinalizeStep(w, "if_not_warning")
              => worker'[w].step = IF job.status_type # "warning"
                                   THEN "success_count" ELSE "if_warning"
         /\ FinalizeStep(w, "success_count") => worker'[w].step = "failure_count"
         /\ FinalizeStep(w, "failure_count") => worker'[w].step = "status_type"
         /\ FinalizeStep(w, "status_type")
              => /\ job' = [job EXCEPT !.status_type = "success"]
                 /\ worker'[w].step = "status_message"
         /\ FinalizeStep(w, "status_message")
              => /\ job' = [job EXCEPT !.status_message = CompletedMessage(job)]
                 /\ worker'[w].step = "if_warning"
         /\ FinalizeStep(w, "if_warning")
              => worker'[w].step = IF job.status_type # "warning"
                                   THEN "complete_value" ELSE "cancelled_value"
         /\ FinalizeStep(w, "complete_value")
              => /\ job' = [job EXCEPT !.progress_value = FracOne]
                 /\ worker'[w].step = "complete_text"
         /\ FinalizeStep(w, "complete_text")
              => /\ job' = [job EXCEPT !.progress_text = MsgDownloadsComplete]
                 /\ worker'[w].pc = "done"]_vars
C20_Witness ==
    /\ \A w \in JobIds : ~Active(w)
    /\ ~job.running /\ job.error = None /\ job.status_type = "success"
    /\ Len(job.items) = 1 /\ Len(job.failures) = 1
    /\ job.playlist_title = None
    /\ job.status_message = CompletedMessage(job)
    /\ job.progress_value = FracOne
    /\ job.progress_text = MsgDownloadsComplete

\* The last step of finalize_job for the job that worker w runs, after a
\* download_playlist that returned (loop exhausted or left at a
\* cancellation).
FinalizedRunAt(w) ==
    FinalizesAt(w, "exhausted") \/ FinalizesAt(w, "cancelled")

\* The bundle that belongs to a list of items: none for no items, else one
\* (filename, payload) entry per item.
BundleOf(items) ==
    IF items = <<>> THEN <<>>
    ELSE <<[i \in 1..Len(items) |-> <<items[i].filename, items[i].data>>]>>

\* C21: when finalize_job ends for a run that ended normally or by
\* cancellation, a bundle is present exactly when items is non-empty, and
\* it holds exactly one entry per item, the item's filename with the
\* item's bytes, and nothing else.
C21_BundleMatchesItems ==
    [][\A w \in JobIds :
         FinalizedRunAt(w) => job'.archive_data = BundleOf(job'.items)]_vars

\* C22: the scratch directory of a run exists exactly while the run's item
\* loop is active, it is removed (with the files left in it) on every way
\* out of the loop, which are the end of the entry list, the cancellation
\* break and an exception that leaves download_playlist, and while running
\* is false no scratch directory of the job remains.
C22_ScratchOnlyInLoop ==
    \A w \in JobIds :
      /\ worker[w].tmp <=> worker[w].pc \in LoopPcs
      /\ ~worker[w].tmp => worker[w].scratch = {}
      /\ (job.job_id = Some(w) /\ ~job.running) => ~worker[w].tmp
C22_RemovedOnExit ==
    [][\A w \in JobIds :
         (Moves(w) /\ worker[w].pc \in LoopPcs /\ worker'[w].pc \notin LoopPcs)
           => /\ ~worker'[w].tmp /\ worker'[w].scratch = {}
              /\ \/ /\ worker[w].pc = "progress_callback"
                    /\ worker[w].position = total_items(w)
                    /\ worker'[w].pc = "finalize_job"
                    /\ worker'[w].ended = "exhausted"
                 \/ /\ worker[w].pc = "cancel_status"
                    /\ worker'[w].pc = "finalize_job"
                    /\ worker'[w].ended = "cancelled"
                 \/ /\ worker[w].pc = "download"
                    /\ worker'[w].pc = "register_error"
                    /\ worker'[w].ended = "exception"]_vars
C22_ScratchRemoved == []C22_ScratchOnlyInLoop /\ C22_RemovedOnExit
C22_Witness ==
    \E w \in JobIds :
      /\ worker[w].pc = "register_error" /\ worker[w].ended = "exception"
      /\ worker[w].exc = Some(MsgReadError)
      /\ ~worker[w].tmp /\ worker[w].scratch = {}
      /\ job.job_id = Some(w) /\ job.running
      /\ Len(job.items) = 1 /\ job.items[1].filename[3] = "m4a"

\* C23: every accepted start assigns a job id that no earlier start has
\* assigned (ids 1..nextId are the ones handed out), and while the job id
\* stays the same running never goes from false to true, so that for one
\* id running goes from true to false at most once.
C23_IdsHandedOut ==
    job.job_id = None \/ job.job_id[1] \in 1..nextId
C23_FreshIdRunningOnce ==
    [][/\ nextId' >= nextId
       /\ nextId' # nextId
            => /\ nextId' = nextId + 1
               /\ job'.job_id = Some(nextId')
               /\ job'.job_id # job.job_id
               /\ worker[nextId'].pc = "unborn"
               /\ ~job.running /\ job'.running
       /\ job'.job_id # job.job_id => nextId' # nextId
       /\ (job'.job_id = job.job_id /\ ~job.running) => ~job'.running]_vars
C23_UniqueIdsRunningOnce == []C23_IdsHandedOut /\ C23_FreshIdRunningOnce
C23_Witness ==
    /\ nextId = MaxJobs /\ job.job_id = Some(MaxJobs) /\ ~job.running
    /\ \A w \in JobIds : worker[w].pc = "done"
    /\ cres = "ToolUnavailable"

\* A call of choose_media_file by thread w has returned.
Returned(w) == worker[w].pc = "returned"

\* C24: choose_media_file is deterministic: two calls with equal candidate
\* sets and the same format return the same file, whatever the order in
\* which the set is enumerated, also when several candidates share the
\* winning extension and when only a fallback applies.
C24_ChooseDeterministic ==
    \A v, w \in JobIds :
      (Returned(v) /\ Returned(w)
         /\ worker[v].scratch = worker[w].scratch
         /\ worker[v].media_format = worker[w].media_format)
        => worker[v].cur = worker[w].cur

\* C25: choose_media_file returns no file iff the candidate set is empty.
\* Otherwise it returns a member of the set whose extension (compared in
\* lower case) is the earliest entry of the format's ranked list that
\* occurs among the candidates (audio: mp3, m4a, opus, webm, aac; video:
\* mp4, mkv, webm, m4v, mov); if no ranked extension occurs, a candidate
\* with a recognized media extension; if there is none either, some
\* member of the set.
C25_ChoosePolicy ==
    \A w \in JobIds :
      Returned(w)
        => LET c == worker[w].scratch
               r == worker[w].cur[1]
               ranks == IF worker[w].media_format = "MP3"
                        THEN <<"mp3", "m4a", "opus", "webm", "aac">>
                        ELSE <<"mp4", "mkv", "webm", "m4v", "mov">>
               recognized == {"mp3", "m4a", "aac", "opus", "ogg", "mp4", "mkv",
                              "webm", "m4v", "mov"}
               ext(p) == IF p.ext = "MP3" THEN "mp3" ELSE p.ext
               occurs == {i \in 1..5 : \E p \in c : ext(p) = ranks[i]}
           IN /\ r = None <=> c = {}
              /\ r # None
                   => /\ r[1] \in c
                      /\ IF occurs # {}
                         THEN \E i \in occurs : /\ ext(r[1]) = ranks[i]
                                                /\ \A j \in occurs : i <= j
                         ELSE (\E p \in c : ext(p) \in recognized)
                                 => ext(r[1]) \in recognized
C25_Witness ==
    \E w \in JobIds :
      /\ Returned(w) /\ worker[w].media_format = "MP3"
      /\ worker[w].scratch = {[stem |-> 1, ext |-> "webm"],
                              [stem |-> 1, ext |-> "m4a"],
                              [stem |-> 1, ext |-> "txt"]}
      /\ worker[w].cur = Some(Some([stem |-> 1, ext |-> "m4a"]))

\* The step of the script thread that starts a job.
StartAccepted == nextId' # nextId

\* C26: an accepted start replaces the previous job completely.  After it
\* running is true, the id is fresh, items and failures are empty,
\* archive, terminalError, totalItems and playlistTitle are absent, the
\* cancel Event is not set, progress is 0.0 and status is INFO with the
\* message "Preparing first N item(s)..." when an item cap N is active and
\* "Preparing downloads..." otherwise; no field keeps a value of the
\* previous job.
C26_StartReplacesJob ==
    [][StartAccepted
         => /\ job'.running /\ job'.job_id = Some(nextId')
            /\ job'.job_id # job.job_id
            /\ job'.items = <<>> /\ job'.failures = <<>>
            /\ job'.archive_data = None /\ job'.archive_name = None
            /\ job'.error = None
            /\ job'.playlist_total = None /\ job'.playlist_title = None
            /\ job'.cancel_event = Some(nextId') /\ ~event'[nextId']
            /\ job'.progress_value = FracZero
            /\ job'.status_type = "info"
            /\ job'.max_items \in {None, Some(1)}
            /\ job'.status_message
                 = IF job'.max_items = None THEN <<"Preparing downloads...">>
                   ELSE <<"Preparing first {max_items} item(s)...",
                          job'.max_items[1]>>
            /\ job'.progress_text = job'.status_message
            /\ job'.media_format \in {Some("MP3"), Some("MP4")}
            /\ job'.playlist_url = Some("url")
            /\ worker'[nextId'].media_format = job'.media_format[1]
            /\ worker'[nextId'].max_items = job'.max_items
            /\ worker'[nextId'].pc = "fetch_playlist_entries"]_vars
C26_Witness ==
    /\ nextId = MaxJobs /\ job.job_id = Some(MaxJobs) /\ job.running
    /\ job.items = <<>> /\ job.archive_data = None /\ job.error = None
    /\ job.status_message = MsgPreparingFirst(1)
    /\ worker[MaxJobs].pc = "fetch_playlist_entries"
    /\ worker[1].pc = "finalize_job" /\ worker[1].tmp2 # None

\* The entry at position p of worker w's list has no URL.
NoUrl(w, p) == worker[w].entries[p].url = None
MissingUrlRecord(w, p) ==
    [title |-> TitleAt(w, p), error |-> <<"Missing video URL">>]

\* C27: for an entry without a resolvable URL the fetcher is not invoked
\* (the download statement is reached only with a URL); the worker records
\* exactly one failure, the entry's title with "Missing video URL", then
\* makes the progress report of that position and goes on with the next
\* entry (or, after the last one, leaves the loop).
C27_OneRecordPerMissingUrl ==
    \A w \in JobIds :
      (job.running /\ job.job_id = Some(w) /\ worker[w].pc \in LoopPcs)
        => /\ Cardinality({i \in 1..Len(job.failures) :
                             job.failures[i].error = <<"Missing video URL">>})
                = Cardinality({p \in 1..Processed(w) : NoUrl(w, p)})
           /\ worker[w].pc \in {"download", "success_callback"}
                => ~NoUrl(w, worker[w].position)
C27_Steps ==
    [][\A w \in JobIds :
         (Moves(w) /\ worker[w].pc \in LoopPcs /\ job.job_id = Some(w)
            /\ NoUrl(w, worker[w].position))
           => LET pc == worker[w].pc
                  pc2 == worker'[w].pc
                  k == worker[w].position
              IN /\ pc \notin {"download", "success_callback"}
                 /\ pc2 \notin {"download", "success_callback", "register_error"}
                 /\ (pc = "info_status" /\ pc2 # pc)
                       => /\ pc2 = "failure_callback"
                          /\ worker'[w].cur = Some(MissingUrlRecord(w, k))
                          /\ ListsUnchanged
                 /\ pc = "failure_callback"
                       => /\ pc2 = "progress_callback"
                          /\ job'.failures
                               = Append(job.failures, MissingUrlRecord(w, k))
                          /\ job'.items = job.items
                 /\ pc = "progress_callback"
                       => /\ ListsUnchanged
                          /\ worker[w].step = ""
                               => /\ job'.progress_value = Frac(k, total_items(w))
                                  /\ pc2 = pc
                          /\ worker[w].step # ""
                               => /\ job'.progress_text
                                       = <<"Processed {position}/{total_items}",
                                           k, total_items(w)>>
                                  /\ IF k < total_items(w)
                                     THEN /\ pc2 = "loop"
                                          /\ worker'[w].position = k + 1
                                     ELSE pc2 = "finalize_job"]_vars
C27_MissingUrlSkipped == []C27_OneRecordPerMissingUrl /\ C27_Steps
C27_Witness ==
    \E w \in JobIds :
      /\ job.running /\ job.job_id = Some(w)
      /\ worker[w].pc = "info_status" /\ worker[w].position = MaxEntries
      /\ NoUrl(w, 1)
      /\ job.failures = <<MissingUrlRecord(w, 1)>> /\ job.items = <<>>
      /\ job.progress_text = MsgProcessed(1, MaxEntries)

\* The dispositions an entry can reach, as the record the worker is about
\* to report: a failure with one of the item-local messages, or a success.
IsFailureRecord(r) == "error" \in DOMAIN r
IsSuccessRecord(r) == "filename" \in DOMAIN r

\* C28: after every entry that reaches a disposition (success, fetcher
\* failure, output not produced, missing URL) the worker makes exactly one
\* progress report, with the fraction position/totalItems and the text
\* "Processed <position>/<totalItems>", after the entry's success or
\* failure callback and before it turns to the next entry.
C28_ProgressAfterDisposition ==
    [][\A w \in JobIds :
         (Moves(w) /\ worker[w].pc \in LoopPcs)
           => LET pc == worker[w].pc
                  pc2 == worker'[w].pc
                  k == worker[w].position
                  n == total_items(w)
              IN /\ pc2 \in {"success_callback", "failure_callback"}
                       => /\ worker'[w].cur # None
                          /\ IF pc2 = "success_callback"
                             THEN IsSuccessRecord(worker'[w].cur[1])
                             ELSE /\ IsFailureRecord(worker'[w].cur[1])
                                  /\ worker'[w].cur[1].error
                                       \in {<<"Missing video URL">>,
                                            <<"Media file not produced">>,
                                            MsgFetchError}
                 /\ pc \in {"success_callback", "failure_callback"}
                       => pc2 = "progress_callback" /\ worker'[w].position = k
                 /\ (pc2 = "progress_callback" /\ pc # pc2)
                       => pc \in {"success_callback", "failure_callback"}
                 /\ (pc = "progress_callback" /\ job_matches(w))
                       => IF worker[w].step = ""
                          THEN /\ job' = [job EXCEPT !.progress_value = Frac(k, n)]
                               /\ pc2 = pc /\ worker'[w].position = k
                          ELSE /\ job' = [job EXCEPT !.progress_text =
                                            <<"Processed {position}/{total_items}",
                                              k, n>>]
                               /\ pc2 # pc
                 /\ (pc2 \notin LoopPcs \/ worker'[w].position # k)
                       => \/ pc = "progress_callback" /\ worker[w].step # ""
                          \/ pc = "progress_callback" /\ ~job_matches(w)
                          \/ pc = "cancel_status" /\ pc2 = "finalize_job"
                          \/ pc = "download" /\ pc2 = "register_error"]_vars
C28_Witness ==
    \E w \in JobIds :
      /\ worker[w].pc = "finalize_job" /\ worker[w].step = ""
      /\ worker[w].ended = "exhausted"
      /\ job.running /\ job.job_id = Some(w)
      /\ job.playlist_total = Some(MaxEntries)
      /\ Len(job.failures) = 1 /\ job.failures[1].error = MsgNotProduced
      /\ Len(job.items) = 1 /\ job.items[1].position = MaxEntries
      /\ job.progress_value = FracOne
      /\ job.progress_text = MsgProcessed(MaxEntries, MaxEntries)

\* The scratch file a success record was read from.
FileOf(item) == [stem |-> item.filename[1], ext |-> item.filename[3]]

\* C29: a fetch that returns without error and adds no new file to the
\* scratch directory yields the failure "Media file not produced" and no
\* item.  The output is looked for only among the files that appeared
\* during this entry's fetch: the file of a success is not one that was in
\* the directory before the fetch, so a file an earlier entry left behind
\* is never the output of a later entry, and every item holds a file that
\* its own entry's fetch produced.
C29_OwnFileOnly ==
    \A i \in 1..Len(job.items) : FileOf(job.items[i]).stem = job.items[i].position
C29_NewFilesOnly ==
    [][\A w \in JobIds :
         (Moves(w) /\ worker[w].pc = "download")
           => LET before == worker[w].scratch
                  after == worker'[w].scratch
                  cur == worker'[w].cur[1]
              IN /\ worker'[w].pc = "success_callback"
                       => /\ FileOf(cur) \notin before
                          /\ FileOf(cur) \notin after
                          /\ \A f \in after \ before :
                                f.stem = worker[w].position
                          /\ cur.position = worker[w].position
                          /\ FileOf(cur).stem = worker[w].position
                 /\ worker'[w].pc = "failure_callback"
                       => /\ after = before
                          /\ cur.error \in {<<"Media file not produced">>,
                                            MsgFetchError}
                          /\ ListsUnchanged
                 /\ worker'[w].pc \in {"success_callback", "failure_callback",
                                        "register_error"}]_vars
C29_OutputAmongNewFiles == []C29_OwnFileOnly /\ C29_NewFilesOnly
C29_Witness ==
    \E w \in JobIds :
      /\ worker[w].pc = "failure_callback" /\ worker[w].position = MaxEntries
      /\ worker[w].cur = Some([title |-> TitleAt(w, MaxEntries),
                               error |-> MsgNotProduced])
      /\ worker[w].scratch = {[stem |-> 1, ext |-> "webm"]}
      /\ worker[w].media_format = "MP3"
      /\ job.job_id = Some(w) /\ Len(job.items) = 1
      /\ FileOf(job.items[1]) = [stem |-> 1, ext |-> "m4a"]

\* Thread w has computed an archive name.
Named(w) == worker[w].pc = "named"
\* No character of the string survives slugification: each one is dropped
\* as punctuation or stripped as a hyphen, blank or underscore.
NothingLeft(s) ==
    \A i \in 1..Len(s) : s[i] \notin (WordChars \ {"_"})
\* A well-formed slug: not empty, only word characters and hyphens, no two
\* hyphens in a row, no hyphen or underscore at either end.
IsSlug(s) ==
    /\ s # <<>>
    /\ \A i \in 1..Len(s) : s[i] \in WordChars \cup {"-"}
    /\ \A i \in 1..(Len(s) - 1) : ~(s[i] = "-" /\ s[i + 1] = "-")
    /\ s[1] \notin {"-", "_"} /\ s[Len(s)] \notin {"-", "_"}

\* C30 as claimed: the bundle is named <slug>-<format>s.zip where slug is
\* the slugified playlist title, and slug is "playlist" both when the
\* title is absent and when it is empty after slugification.
C30_FallbackPlaylist ==
    \A w \in JobIds :
      Named(w)
        => LET t == worker[w].title
               name == worker[w].tmp1[1]
           IN /\ name[2] = (IF worker[w].media_format = "MP3" THEN "mp3"
                            ELSE "mp4")
              /\ name[3] = "s.zip"
              /\ name[1] = IF t = None \/ NothingLeft(t[1])
                           THEN <<"p", "l", "a", "y", "l", "i", "s", "t">>
                           ELSE slugify(t[1])

\* C30 as amended: the bundle is named <slug>-<format>s.zip with the
\* format in lower case; slug is a well-formed slug, the slugified
\* playlist title; it is "youtube-playlist" when the title is absent or the
\* empty string, and "playlist" when a non-empty title is empty after
\* slugification.
C30_ArchiveNamed ==
    \A w \in JobIds :
      Named(w)
        => LET t == worker[w].title
               name == worker[w].tmp1[1]
           IN /\ Len(name) = 3
              /\ name[2] = (IF worker[w].media_format = "MP3" THEN "mp3"
                            ELSE "mp4")
              /\ name[3] = "s.zip"
              /\ IsSlug(name[1])
              /\ name[1] = IF t = None \/ t = Some(<<>>)
                           THEN <<"y", "o", "u", "t", "u", "b", "e", "-",
                                  "p", "l", "a", "y", "l", "i", "s", "t">>
                           ELSE IF NothingLeft(t[1])
                           THEN <<"p", "l", "a", "y", "l", "i", "s", "t">>
                           ELSE slugify(t[1])
              /\ (t # None /\ ~NothingLeft(t[1]))
                   => /\ SelectSeq(name[1], LAMBDA c : c # "-")
                           = RStrip(LStrip(SelectSeq(t[1],
                                 LAMBDA c : c \in WordChars), {"_"}), {"_"})
C30_Witness ==
    \E w \in JobIds :
      /\ Named(w) /\ worker[w].title = None /\ worker[w].media_format = "MP3"
      /\ worker[w].tmp1 = Some(<<StrYoutubePlaylist, "mp3", "s.zip">>)

\* The worker holds a resolved entry list.
ResolvedPcs == {"total_callback"} \cup LoopPcs
\* The entries of a raw list that are not null, in order, and the first n
\* elements of a list.
NonNull(raw) ==
    LET kept == SelectSeq(raw, LAMBDA e : e # <<>>)
    IN [i \in 1..Len(kept) |-> kept[i][1]]
FirstN(list, n) == [i \in 1..(IF Len(list) < n THEN Len(list) ELSE n) |-> list[i]]

\* C31: when an item cap N is given the resolver returns at most N
\* entries, so the reported totalItems is at most N and at most N entries
\* are ever fetched or recorded; what the resolver returns is the list of
\* the engine's entries that are not null, in order, cut to the first N:
\* null entries are dropped and not counted in totalItems.
C31_AtMostCap ==
    \A w \in JobIds :
      (worker[w].pc \in ResolvedPcs /\ worker[w].max_items # None)
        => /\ total_items(w) <= worker[w].max_items[1]
           /\ worker[w].position <= worker[w].max_items[1]
           /\ (job.job_id = Some(w) /\ worker[w].pc \in LoopPcs)
                => /\ job.playlist_total = Some(total_items(w))
                   /\ job.playlist_total[1] <= job.max_items[1]
                   /\ Len(job.items) + Len(job.failures) <= job.max_items[1]
C31_Resolved ==
    [][\A w \in JobIds :
         (Moves(w) /\ worker[w].pc = "fetch_playlist_entries"
            /\ worker'[w].pc = "total_callback")
           => /\ \E raw \in RawLists(MaxEntries) :
                   worker'[w].entries
                     = IF worker[w].max_items = None THEN NonNull(raw)
                       ELSE FirstN(NonNull(raw), worker[w].max_items[1])
              /\ \A i \in 1..Len(worker'[w].entries) :
                   worker'[w].entries[i] # <<>>
              /\ Len(worker'[w].entries) >= 1]_vars
C31_CapAndNulls == []C31_AtMostCap /\ C31_Resolved
C31_Witness ==
    \E w \in JobIds :
      /\ worker[w].pc = "finalize_job" /\ worker[w].ended = "exhausted"
      /\ worker[w].step = ""
      /\ job.job_id = Some(w) /\ job.max_items = Some(1)
      /\ job.playlist_total = Some(1)
      /\ Len(job.items) = 1 /\ job.failures = <<>>

\* C32: in every reachable state the progress fraction stored in Job State
\* lies in [0,1], whatever value a progress callback is invoked with and
\* whatever finalize_job computes.
C32_ProgressInUnit ==
    /\ job.progress_value[2] > 0
    /\ 0 <= job.progress_value[1]
    /\ job.progress_value[1] <= job.progress_value[2]
C32_Witness ==
    \E w \in JobIds :
      /\ worker[w].pc = "progress_callback" /\ worker[w].step = "progress_text"
      /\ worker[w].position = 1 /\ total_items(w) = MaxEntries
      /\ job.job_id = Some(w) /\ job.running
      /\ job.progress_value = FracZero

\* A cancel request for the job of worker w has been accepted: its Event
\* is set while the job is running.
CancelAccepted(w) == event[w] /\ job.running /\ job.job_id = Some(w)

\* C33: once a cancel request has been accepted the job's status is never
\* SUCCESS afterwards, however the writes of cancel_download_job interleave
\* with the worker's, also when the request arrives while the last entry
\* is being processed.
C33_Terminal(w) ==
    job.job_id = Some(w) /\ worker[w].pc = "done" /\ cpc = "idle"
C33_CancelledNeverSuccess ==
    \A w \in JobIds :
      [](CancelAccepted(w)
           => [](C33_Terminal(w) => job.status_type # "success"))

\* C34: if the resolver and every fetcher call eventually return or fail
\* and the worker is scheduled fairly, every accepted job eventually
\* reaches running = false, whether or not cancel requests arrive and
\* however they interleave with the worker.
C34_EventuallyNotRunning ==
    \A w \in JobIds :
      (job.running /\ job.job_id = Some(w)) ~> ~job.running
C34_Witness ==
    /\ ~job.running /\ job.job_id # None
    /\ \A w \in JobIds : ~Active(w)
    /\ job.error = Some(MsgReadError) /\ job.status_type = "warning"
    /\ Len(job.items) = 1

\* C35: in every reachable state with running = true the status level is
\* INFO or WARNING, never SUCCESS or ERROR.
C35_RunningStatusInfoOrWarning ==
    job.running => job.status_type \in {"info", "warning"}

\* C36: the count reported through total_callback is always at least 1.
\* The resolver fails on an empty entry list, so download_playlist never
\* takes its `total_items == 0` return, total_callback is always followed
\* by the loop, and no job holds or is finalized with a total of 0.
C36_TotalPositive ==
    /\ job.playlist_total = None \/ job.playlist_total[1] >= 1
    /\ \A w \in JobIds :
         /\ worker[w].pc \in ResolvedPcs => total_items(w) >= 1
         /\ worker[w].ended # "empty"
C36_NoEarlyReturn ==
    [][\A w \in JobIds :
         Moves(w)
           => /\ worker[w].pc = "total_callback"
                   => /\ worker'[w].pc = "loop"
                      /\ job_matches(w)
                           => /\ job'.playlist_total = Some(total_items(w))
                              /\ job'.playlist_total[1] >= 1
              /\ (worker[w].pc = "fetch_playlist_entries"
                    /\ worker'[w].pc = "register_error")
                   => worker'[w].exc \in {Some(MsgUnableToRetrieve),
                                          Some(MsgNotAPlaylist),
                                          Some(<<"No downloadable videos were found in this playlist.">>)}
              /\ worker'[w].pc = "finalize_job"
                   => worker[w].pc \in {"finalize_job", "cancel_status",
                                        "progress_callback"}]_vars
C36_TotalAtLeastOne == []C36_TotalPositive /\ C36_NoEarlyReturn
C36_Witness ==
    \E w \in JobIds :
      /\ worker[w].pc = "register_error" /\ worker[w].step = ""
      /\ worker[w].exc = Some(MsgNoVideos)
      /\ job.job_id = Some(w) /\ job.running
      /\ job.playlist_total = None /\ job.max_items = Some(1)

====
